---- MODULE Spec2Model ----
(***************************************************************************)
(* Retry / backoff sequencing of the two image fetchers of the repository: *)
(*   download_and_display_image   (src/download_image.py)                  *)
(*   test_download                (src/test_download.py)                   *)
(* Each invocation is a sequential process.  Its steps are cut at the two  *)
(* blocking calls, requests.get and time.sleep; everything between them    *)
(* (status inspection, exception dispatch, decoding, display, save,        *)
(* return) belongs to the step of the call that precedes it.  The remote   *)
(* server is the environment: every requests.get draws one outcome.        *)
(***************************************************************************)
EXTENDS Integers, Sequences, FiniteSets, TLC

\* ---------------------------------------------------------------- bounds
\* max_retries is drawn from -1..MaxRetries (range() of a negative
\* number is empty, like range(0)); initial_delay from 1..MaxInitialDelay.
MaxRetries == 3
MaxInitialDelay == 2
\* The same, for the specification with two concurrent invocations.
MaxRetriesConc == 3
MaxInitialDelayConc == 2
\* max_retries of the specification that runs the two functions side by side.
MaxRetriesPair == 3

\* ------------------------------------------------------ program constants
\* delay = 2 in test_download
TestDelay == 2
\* initial_delay=2, the default of download_and_display_image
DefaultInitialDelay == 2
\* delay *= 2
BackoffFactor == 2
\* the status the code compares response.status_code with
TooManyRequests == 429

Procs == {1, 2}

DOWNLOAD == "download_and_display_image"
TEST == "test_download"

\* ------------------------------------------------------------ environment
\* What one requests.get call can produce: a transport failure (requests
\* raises a subclass of RequestException), or a response with a status code
\* whose body either is or is not a decodable image.
NetworkFailure == [kind |-> "exception", status |-> 0, image |-> FALSE]

Response(status, image) == [kind |-> "response", status |-> status, image |-> image]

Ok == Response(200, TRUE)

Undecodable == Response(200, FALSE)

RateLimited == Response(TooManyRequests, FALSE)

NotFound == Response(404, FALSE)

ServerError == Response(500, FALSE)

Outcomes == {NetworkFailure, Ok, Undecodable, RateLimited, NotFound, ServerError}

\* ------------------------------------------------------------- exceptions
\* The classes the try body can raise and the except clauses name, with the
\* Python class hierarchy: HTTPError and ConnectionError derive from
\* RequestException, everything derives from Exception.
IsSubclassIOError(exc, cls) ==
    \/ exc = cls
    \/ cls = "Exception"
    \/ cls = "RequestException" /\ exc \in {"HTTPError", "ConnectionError", "UnidentifiedImageError"}

IsSubclass(exc, cls) ==
    \/ exc = cls
    \/ cls = "Exception"
    \/ cls = "RequestException" /\ exc \in {"HTTPError", "ConnectionError"}

\* response.raise_for_status(): HTTPError for a 4xx or 5xx status.
RaisesForStatusFrom200(status) == 200 <= status /\ status < 600

RaisesForStatus(status) == 400 <= status /\ status < 600

\* The except clauses of each function, in source order.
ExceptClausesReordered(f) ==
    IF f = DOWNLOAD THEN <<"RequestException", "HTTPError", "Exception">> ELSE <<"Exception">>

ExceptClausesNoCatchAll(f) ==
    IF f = DOWNLOAD THEN <<"HTTPError", "RequestException">> ELSE <<"Exception">>

ExceptClauses(f) ==
    IF f = DOWNLOAD THEN <<"HTTPError", "RequestException", "Exception">>
    ELSE <<"Exception">>

\* The clause that handles exc: the first one whose class exc is an instance
\* of; "uncaught" when there is none and the exception leaves the function.
Handler(f, exc) ==
    LET cl == ExceptClauses(f)
        hit == {i \in 1..Len(cl) : IsSubclass(exc, cl[i])}
    IN IF hit = {} THEN "uncaught"
       ELSE cl[CHOOSE i \in hit : \A j \in hit : i <= j]

\* `attempt < max_retries - 1`: another attempt remains after this one.
AttemptsRemainOffByOne(a, m) == a < m

AttemptsRemain(a, m) == a < m - 1

\* `for attempt in range(max_retries)`: range(m) still has the element a.
InRangeDoWhile(a, m) == a = 0 \/ a < m

InRange(a, m) == a < m

\* `delay *= 2`
BackoffAdditive(d) == d + BackoffFactor

BackoffNoGrowth(d) == d

Backoff(d) == d * BackoffFactor

VARIABLES
    fn,             \* the function each process invokes ("none": not invoked)
    max_retries,    \* its max_retries argument
    initial_delay,  \* its initial_delay argument
    pc,             \* "main", "for", "sleep", "returned", "crashed", "exit", "idle"
    attempt,        \* the loop variable
    delay,          \* the local variable delay
    outcomes,       \* the outcomes of the requests.get calls so far, in order
    calls,          \* number of requests.get calls made
    sleeps,         \* the durations passed to time.sleep, in order
    result,         \* the value returned: "unset", "img", "None", "True", "False", "raised"
    via,            \* the return statement taken
    effects         \* display / save effects, in order, with where they happen

vars == <<fn, max_retries, initial_delay, pc, attempt, delay, outcomes,
          calls, sleeps, result, via, effects>>

config == <<fn, max_retries, initial_delay>>

\* ------------------------------------------------------------ one attempt
\* The exception the try body raises for outcome o, "none" when it raises
\* nothing.  requests.get raises on a transport failure; a 429 is handled
\* before raise_for_status; raise_for_status raises HTTPError on the other
\* 4xx/5xx statuses; Image.open raises on a body that is no image.
Raised(o) ==
    IF o.kind = "exception" THEN "ConnectionError"
    ELSE IF o.status = TooManyRequests THEN "none"
    ELSE IF RaisesForStatus(o.status) THEN "HTTPError"
    ELSE IF ~o.image THEN "UnidentifiedImageError"
    ELSE "none"

Effect(kind, where) == [kind |-> kind, where |-> where]

Goto(next, value, how, eff) == [next |-> next, value |-> value, via |-> how, effects |-> eff]

\* One iteration of the loop of download_and_display_image, from the
\* requests.get call to the sleep, the return or the end of the iteration:
\* a = attempt, m = max_retries, o = what requests.get produced.
DownloadAttempt(o, a, m) ==
    LET exc == Raised(o)
        h == Handler(DOWNLOAD, exc)
    IN IF exc = "none"
       THEN IF o.status = TooManyRequests
            THEN IF AttemptsRemain(a, m)
                 THEN Goto("sleep", "unset", "none", <<>>)
                 ELSE Goto("return", "None", "rate_limit", <<>>)
            ELSE Goto("return", "img", "success", <<Effect("show", "fetch")>>)
       ELSE IF h = "HTTPError"
            THEN IF o.status # TooManyRequests
                 THEN Goto("return", "None", "http_error", <<>>)
                 ELSE Goto("continue", "unset", "none", <<>>)
       ELSE IF h = "RequestException"
            THEN IF AttemptsRemain(a, m)
                 THEN Goto("sleep", "unset", "none", <<>>)
                 ELSE Goto("return", "None", "request_error", <<>>)
       ELSE IF h = "Exception"
            THEN Goto("return", "None", "error", <<>>)
       ELSE Goto("raise", "raised", "none", <<>>)

\* One iteration of the loop of test_download.
TestAttempt(o, a, m) ==
    LET exc == Raised(o)
        h == Handler(TEST, exc)
    IN IF exc = "none"
       THEN IF o.status = TooManyRequests
            THEN IF AttemptsRemain(a, m)
                 THEN Goto("sleep", "unset", "none", <<>>)
                 ELSE Goto("return", "False", "rate_limit", <<>>)
            ELSE Goto("return", "True", "success", <<Effect("save", "fetch")>>)
       ELSE IF h = "Exception"
            THEN IF AttemptsRemain(a, m)
                 THEN Goto("sleep", "unset", "none", <<>>)
                 ELSE Goto("continue", "unset", "none", <<>>)
       ELSE Goto("raise", "raised", "none", <<>>)

\* An assignment to the local variable delay of p's call frame.
SetDelayGlobal(p, d) == [q \in Procs |-> d]

SetDelay(p, d) == [delay EXCEPT ![p] = d]

\* The first value of delay: `delay = initial_delay` in
\* download_and_display_image (d = its argument), `delay = 2` in test_download.
StartDelayTestOne(f, d) == IF f = DOWNLOAD THEN d ELSE 1

StartDelay(f, d) == IF f = DOWNLOAD THEN d ELSE TestDelay

\* The value the function returns when the loop runs to completion.
Fallback(f) == IF f = DOWNLOAD THEN "None" ELSE "False"

\* `if image:` in __main__ of download_image.py; an Image is truthy, None is not.
TruthyAlways(v) == TRUE

Truthy(v) == v \in {"img", "True"}

\* ---------------------------------------------------------------- actions
\* The call: the parameters are bound and `delay = initial_delay`
\* (`delay = 2` in test_download) runs; the loop is about to start.
Call(p) ==
    /\ pc[p] = "main"
    /\ pc' = [pc EXCEPT ![p] = "for"]
    /\ delay' = SetDelay(p, StartDelay(fn[p], initial_delay[p]))
    /\ attempt' = [attempt EXCEPT ![p] = 0]
    /\ UNCHANGED <<config, outcomes, calls, sleeps, result, via, effects>>

\* One loop iteration: requests.get and the handling of what it produced.
Attempt(p) ==
    /\ pc[p] = "for"
    /\ InRange(attempt[p], max_retries[p])
    /\ \E o \in Outcomes :
         LET g == IF fn[p] = DOWNLOAD
                  THEN DownloadAttempt(o, attempt[p], max_retries[p])
                  ELSE TestAttempt(o, attempt[p], max_retries[p])
         IN /\ calls' = [calls EXCEPT ![p] = @ + 1]
            /\ outcomes' = [outcomes EXCEPT ![p] = Append(@, o)]
            /\ effects' = [effects EXCEPT ![p] = @ \o g.effects]
            /\ result' = [result EXCEPT ![p] = g.value]
            /\ via' = [via EXCEPT ![p] = g.via]
            /\ pc' = [pc EXCEPT ![p] =
                        CASE g.next = "sleep" -> "sleep"
                          [] g.next = "continue" -> "for"
                          [] g.next = "return" -> "returned"
                          [] OTHER -> "crashed"]
            /\ attempt' = [attempt EXCEPT ![p] =
                        IF g.next = "continue" THEN @ + 1 ELSE @]
    /\ UNCHANGED <<config, delay, sleeps>>

\* time.sleep(delay) returns; `delay *= 2`; the loop goes to the next attempt.
Sleep(p) ==
    /\ pc[p] = "sleep"
    /\ sleeps' = [sleeps EXCEPT ![p] = Append(@, delay[p])]
    /\ delay' = SetDelay(p, Backoff(delay[p]))
    /\ attempt' = [attempt EXCEPT ![p] = @ + 1]
    /\ pc' = [pc EXCEPT ![p] = "for"]
    /\ UNCHANGED <<config, outcomes, calls, result, via, effects>>

\* range(max_retries) is exhausted: the `return None` / `return False`
\* after the loop.
LoopExit(p) ==
    /\ pc[p] = "for"
    /\ ~InRange(attempt[p], max_retries[p])
    /\ result' = [result EXCEPT ![p] = Fallback(fn[p])]
    /\ via' = [via EXCEPT ![p] = "fallback"]
    /\ pc' = [pc EXCEPT ![p] = "returned"]
    /\ UNCHANGED <<config, attempt, delay, outcomes, calls, sleeps, effects>>

\* The caller after the call returned: __main__ of download_image.py saves
\* the image when one was returned; __main__ of test_download.py only prints.
Main(p) ==
    /\ pc[p] = "returned"
    /\ pc' = [pc EXCEPT ![p] = "exit"]
    /\ effects' = [effects EXCEPT ![p] =
                      IF fn[p] = DOWNLOAD /\ Truthy(result[p])
                      THEN Append(@, Effect("save", "caller")) ELSE @]
    /\ UNCHANGED <<config, attempt, delay, outcomes, calls, sleeps, result, via>>

Next == \E p \in Procs : Call(p) \/ Attempt(p) \/ Sleep(p) \/ LoopExit(p) \/ Main(p)

\* ---------------------------------------------------------- initial states
Blank ==
    /\ attempt = [p \in Procs |-> 0]
    /\ delay = [p \in Procs |-> 0]
    /\ outcomes = [p \in Procs |-> <<>>]
    /\ calls = [p \in Procs |-> 0]
    /\ sleeps = [p \in Procs |-> <<>>]
    /\ result = [p \in Procs |-> "unset"]
    /\ via = [p \in Procs |-> "none"]
    /\ effects = [p \in Procs |-> <<>>]

\* One invocation, of either function, with any arguments within the bounds;
\* the second process invokes nothing.
Init ==
    /\ \E f \in {DOWNLOAD, TEST}, m \in (-1)..MaxRetries, d \in 1..MaxInitialDelay :
         /\ fn = [p \in Procs |-> IF p = 1 THEN f ELSE "none"]
         /\ max_retries = [p \in Procs |-> IF p = 1 THEN m ELSE 0]
         /\ initial_delay = [p \in Procs |-> IF p = 1 THEN (IF f = DOWNLOAD THEN d ELSE TestDelay) ELSE 0]
    /\ pc = [p \in Procs |-> IF p = 1 THEN "main" ELSE "idle"]
    /\ Blank

Spec == Init /\ [][Next]_vars

\* Two concurrent invocations of download_and_display_image, each with its
\* own arguments.
InitConc ==
    /\ fn = [p \in Procs |-> DOWNLOAD]
    /\ max_retries \in [Procs -> (-1)..MaxRetriesConc]
    /\ initial_delay \in [Procs -> 1..MaxInitialDelayConc]
    /\ pc = [p \in Procs |-> "main"]
    /\ Blank

SpecConc == InitConc /\ [][Next]_vars

\* One invocation whose steps complete: the call is made, every requests.get
\* returns or raises (timeout=15), every time.sleep returns, the loop exits.
Fairness == \A p \in Procs : WF_vars(Call(p) \/ Attempt(p) \/ Sleep(p) \/ LoopExit(p))

FairSpec == Init /\ [][Next]_vars /\ Fairness

\* download_and_display_image with initial_delay = 2 (process 1) beside
\* test_download (process 2), with the same max_retries.
InitPair ==
    /\ fn = [p \in Procs |-> IF p = 1 THEN DOWNLOAD ELSE TEST]
    /\ \E m \in (-1)..MaxRetriesPair : max_retries = [p \in Procs |-> m]
    /\ initial_delay = [p \in Procs |-> DefaultInitialDelay]
    /\ pc = [p \in Procs |-> "main"]
    /\ Blank

SpecPair == InitPair /\ [][Next]_vars

\* ================================================================ claims
Terminated(p) == pc[p] \in {"returned", "exit"}

Is429(o) == o.kind = "response" /\ o.status = TooManyRequests

IsErrorStatus(o) == o.kind = "response" /\ o.status # TooManyRequests /\ RaisesForStatus(o.status)

IsUndecodable(o) == o.kind = "response" /\ ~RaisesForStatus(o.status) /\ ~Is429(o) /\ ~o.image

\* The first k outcomes of h are all 429 responses.
First429(h, k) == k <= Len(h) /\ \A i \in 1..k : Is429(h[i])

\* d0, d0*2, ..., d0*2^(k-1)
Doubling(d0, k) == [i \in 1..k |-> d0 * 2^(i - 1)]

Downloads == {p \in Procs : fn[p] = DOWNLOAD}

Tests == {p \in Procs : fn[p] = TEST}

\* C1: download_and_display_image, max_retries >= 1: 429 on the first k
\* attempts (k < max_retries) and a decodable success on attempt k+1 give
\* exactly k+1 calls, exactly k sleeps of initial_delay * 2^(i-1), and the
\* image; while only 429s have been seen (fewer than max_retries of them) the
\* invocation has not ended, so the success attempt is indeed made.
C1_RateLimitedThenSuccess ==
    \A p \in Downloads : max_retries[p] >= 1 =>
      \A k \in 0..(max_retries[p] - 1) :
        LET h == outcomes[p] IN
        /\ (Len(h) = k /\ First429(h, k)) => ~Terminated(p) /\ pc[p] # "crashed"
        /\ (Len(h) > k /\ First429(h, k) /\ h[k + 1] = Ok) =>
              /\ Len(h) = k + 1
              /\ calls[p] = k + 1
              /\ sleeps[p] = Doubling(initial_delay[p], k)
              /\ Terminated(p)
              /\ result[p] = "img"

C1_Witness ==
    \E p \in Downloads :
      /\ outcomes[p] = <<RateLimited, RateLimited, Ok>>
      /\ pc[p] = "returned"
      /\ Len(sleeps[p]) = 2

\* C2: download_and_display_image, max_retries >= 1: 429 on every attempt
\* ends with None through the 'Rate limit exceeded' branch after exactly
\* max_retries calls.
C2_RateLimitExhausted ==
    \A p \in Downloads : max_retries[p] >= 1 =>
      LET h == outcomes[p] IN
      /\ (First429(h, Len(h)) /\ Len(h) < max_retries[p]) => ~Terminated(p) /\ pc[p] # "crashed"
      /\ (First429(h, Len(h)) /\ Len(h) >= max_retries[p]) =>
            /\ Terminated(p)
            /\ result[p] = "None"
            /\ via[p] = "rate_limit"
            /\ calls[p] = max_retries[p]
            /\ Len(h) = max_retries[p]

C2_Witness ==
    \E p \in Downloads :
      /\ max_retries[p] = 3
      /\ outcomes[p] = <<RateLimited, RateLimited, RateLimited>>
      /\ pc[p] = "returned"

\* C3: download_and_display_image: a non-429 error status is never retried;
\* the attempt that receives it is the last one, it ends the invocation
\* with None through the HTTPError handler, and no call or sleep follows it
\* (on the first attempt: one call, no sleep).
C3_HttpErrorFailsFast ==
    \A p \in Downloads :
      LET h == outcomes[p] IN
      \A i \in 1..Len(h) : IsErrorStatus(h[i]) =>
        /\ i = Len(h)
        /\ Terminated(p)
        /\ result[p] = "None"
        /\ via[p] = "http_error"
        /\ calls[p] = i
        /\ Len(sleeps[p]) = i - 1

C3_Witness ==
    \E p \in Downloads :
      /\ outcomes[p] \in {<<NotFound>>, <<NetworkFailure, ServerError>>}
      /\ pc[p] = "returned"
      /\ Len(sleeps[p]) = Len(outcomes[p]) - 1

\* C4: download_and_display_image, max_retries >= 1: a network-level
\* exception on every attempt gives exactly max_retries calls, max_retries-1
\* sleeps of initial_delay * 2^(i-1), then None through the RequestException
\* handler.
C4_NetworkErrorExhausted ==
    \A p \in Downloads : max_retries[p] >= 1 =>
      LET h == outcomes[p]
          allFail == \A i \in 1..Len(h) : h[i] = NetworkFailure
      IN
      /\ (allFail /\ Len(h) < max_retries[p]) => ~Terminated(p) /\ pc[p] # "crashed"
      /\ (allFail /\ Len(h) >= max_retries[p]) =>
            /\ Len(h) = max_retries[p]
            /\ calls[p] = max_retries[p]
            /\ sleeps[p] = Doubling(initial_delay[p], max_retries[p] - 1)
            /\ Terminated(p)
            /\ result[p] = "None"
            /\ via[p] = "request_error"

C4_Witness ==
    \E p \in Downloads :
      /\ max_retries[p] = 3
      /\ outcomes[p] = <<NetworkFailure, NetworkFailure, NetworkFailure>>
      /\ pc[p] = "returned"
      /\ Len(sleeps[p]) = 2

\* C5: both functions: a decodable success on the first attempt gives
\* exactly one call, no sleep, and the success result (the image, True).
C5_FirstAttemptSuccess ==
    \A p \in Downloads \cup Tests :
      LET h == outcomes[p] IN
      (Len(h) >= 1 /\ h[1] = Ok) =>
        /\ Len(h) = 1
        /\ calls[p] = 1
        /\ sleeps[p] = <<>>
        /\ Terminated(p)
        /\ result[p] = (IF fn[p] = DOWNLOAD THEN "img" ELSE "True")

C5_Witness ==
    \E p \in Tests : outcomes[p] = <<Ok>> /\ pc[p] = "returned" /\ result[p] = "True"

\* C6: test_download retries only 429 and network-level exceptions: a
\* non-429 error status, or a success whose body does not decode, is the
\* last attempt; no sleep and no further call follows it and the invocation
\* ends with False.
C6_TestFailsFast ==
    \A p \in Tests :
      LET h == outcomes[p] IN
      \A i \in 1..Len(h) : (IsErrorStatus(h[i]) \/ IsUndecodable(h[i])) =>
        /\ i = Len(h)
        /\ pc[p] # "sleep"
        /\ Len(sleeps[p]) <= i - 1
        /\ Terminated(p) => result[p] = "False"

\* C7: download_and_display_image, any max_retries >= 0 and any outcomes:
\* no exception leaves the function; an ended invocation has returned the
\* image or None.
C7_NeverRaises ==
    \A p \in Downloads :
      /\ pc[p] # "crashed"
      /\ result[p] # "raised"
      /\ Terminated(p) => result[p] \in {"img", "None"}

C7_Witness ==
    \E p \in Downloads :
      /\ Len(outcomes[p]) = 2
      /\ outcomes[p][2] = Undecodable
      /\ pc[p] = "returned"
      /\ result[p] = "None"

\* C8: download_and_display_image: a successful response whose body is no
\* image is not retried: it is the last attempt, ends the invocation with
\* None through the catch-all handler, with no sleep and no call after it.
C8_DecodeErrorFailsFast ==
    \A p \in Downloads :
      LET h == outcomes[p] IN
      \A i \in 1..Len(h) : IsUndecodable(h[i]) =>
        /\ i = Len(h)
        /\ Terminated(p)
        /\ result[p] = "None"
        /\ via[p] = "error"
        /\ calls[p] = i
        /\ Len(sleeps[p]) = i - 1

C8_Witness ==
    \E p \in Downloads :
      /\ outcomes[p] = <<RateLimited, Undecodable>>
      /\ pc[p] = "returned"
      /\ via[p] = "error"
      /\ Len(sleeps[p]) = 1

\* C9 as stated: neither function displays the image or writes a file
\* inside the fetch function, in any execution.
C9_NoEffectInsideFetch ==
    \A p \in Downloads \cup Tests :
      \A i \in 1..Len(effects[p]) : effects[p][i].where # "fetch"

InFetch(p) == SelectSeq(effects[p], LAMBDA e : e.where = "fetch")

InCaller(p) == SelectSeq(effects[p], LAMBDA e : e.where = "caller")

\* C9 amended: inside download_and_display_image the image is displayed,
\* once, exactly when the image is returned, and no file is written; inside
\* test_download nothing is displayed and test_image.png is written, once,
\* exactly when True is returned; a failing attempt has no such effect; the
\* caller's save happens only after a non-empty result has been returned.
C9_EffectsOnlyOnSuccess ==
    /\ \A p \in Downloads :
         /\ InFetch(p) = (IF result[p] = "img" THEN <<Effect("show", "fetch")>> ELSE <<>>)
         /\ InCaller(p) # <<>> =>
               /\ InCaller(p) = <<Effect("save", "caller")>>
               /\ pc[p] = "exit"
               /\ result[p] = "img"
    /\ \A p \in Tests :
         /\ InFetch(p) = (IF result[p] = "True" THEN <<Effect("save", "fetch")>> ELSE <<>>)
         /\ InCaller(p) = <<>>

C9_Witness ==
    \E p \in Downloads :
      /\ outcomes[p] = <<NetworkFailure, Ok>>
      /\ pc[p] = "exit"
      /\ effects[p] = <<Effect("show", "fetch"), Effect("save", "caller")>>

\* What download_and_display_image does when it runs alone on the outcome
\* sequence h: i outcomes consumed, a = attempt, d = delay, sl = sleeps.
RECURSIVE Alone(_, _, _, _, _, _)
Alone(h, i, m, d, a, sl) ==
    IF ~(a < m) THEN [calls |-> i, sleeps |-> sl, result |-> "None", done |-> TRUE]
    ELSE IF i = Len(h) THEN [calls |-> i, sleeps |-> sl, result |-> "unset", done |-> FALSE]
    ELSE LET g == DownloadAttempt(h[i + 1], a, m) IN
         IF g.next = "sleep" THEN Alone(h, i + 1, m, d * 2, a + 1, Append(sl, d))
         ELSE IF g.next = "continue" THEN Alone(h, i + 1, m, d, a + 1, sl)
         ELSE [calls |-> i + 1, sleeps |-> sl, result |-> g.value, done |-> TRUE]

\* C10: two concurrent invocations of download_and_display_image: in every
\* interleaving each invocation's delay starts at its own initial_delay and
\* is changed only by its own sleeps, and each ended invocation made the
\* calls, the sleeps and the result it makes alone on the same outcomes.
C10_InvocationsIndependent ==
    \A p \in Downloads :
      /\ pc[p] # "main" => delay[p] = initial_delay[p] * 2^Len(sleeps[p])
      /\ Terminated(p) =>
           LET r == Alone(outcomes[p], 0, max_retries[p], initial_delay[p], 0, <<>>) IN
           /\ r.done
           /\ r.calls = calls[p]
           /\ r.sleeps = sleeps[p]
           /\ r.result = result[p]

\* Both invocations are in flight at once, with different delays: each has
\* slept once and is in its second sleep.
C10_Witness ==
    /\ Downloads = Procs
    /\ initial_delay[1] # initial_delay[2]
    /\ pc[1] = "sleep" /\ Len(sleeps[1]) = 1
    /\ pc[2] = "sleep" /\ Len(sleeps[2]) = 1
    /\ delay[1] # delay[2]

\* C11: download_and_display_image, any mix of 429 responses and network
\* exceptions: both kinds of retry use the one delay variable, so the j-th
\* sleep lasts initial_delay * 2^(j-1) whatever caused the earlier sleeps,
\* and the delay about to be slept is the next term: never reset, capped or
\* jittered.
C11_SharedExponentialDelay ==
    \A p \in Downloads :
      /\ sleeps[p] = Doubling(initial_delay[p], Len(sleeps[p]))
      /\ pc[p] = "sleep" => delay[p] = initial_delay[p] * 2^Len(sleeps[p])

C11_Witness ==
    \E p \in Downloads :
      /\ outcomes[p] = <<RateLimited, NetworkFailure, Ok>>
      /\ Len(sleeps[p]) = 2
      /\ pc[p] = "returned"

\* C12 as stated: in every reachable state of an invocation of either
\* function the number of network calls so far is at most max_retries.
C12_CallsAtMostMaxRetries ==
    \A p \in Downloads \cup Tests : pc[p] # "main" => calls[p] <= max_retries[p]

\* C12 amended: the number of network calls so far is at most max_retries
\* when max_retries >= 0, and 0 when max_retries is negative.
C12_CallsAtMostNonNegativeMaxRetries ==
    \A p \in Downloads \cup Tests : pc[p] # "main" =>
      calls[p] <= (IF max_retries[p] >= 0 THEN max_retries[p] ELSE 0)

C12_Witness ==
    \E p \in Tests :
      /\ max_retries[p] = 3
      /\ calls[p] = 3
      /\ pc[p] = "for"

\* C13: download_and_display_image, max_retries >= 1: the `return None`
\* after the loop is never taken; the loop never runs to completion and
\* every ended invocation returned from inside the loop body.
C13_FallbackUnreachable ==
    \A p \in Downloads : max_retries[p] >= 1 =>
      /\ via[p] # "fallback"
      /\ pc[p] = "for" => InRange(attempt[p], max_retries[p])
      /\ Terminated(p) =>
           via[p] \in {"success", "rate_limit", "http_error", "request_error", "error"}

\* The last attempt of the range ends with an explicit return.
C13_Witness ==
    \E p \in Downloads :
      /\ max_retries[p] = 3
      /\ calls[p] = 3
      /\ pc[p] = "returned"
      /\ via[p] = "request_error"

\* C14: download_and_display_image with max_retries 0 or negative makes no
\* network call and no sleep, and returns None through the `return None`
\* after the loop.
C14_NoAttemptsWhenNoRetries ==
    \A p \in Downloads : max_retries[p] <= 0 =>
      /\ calls[p] = 0
      /\ outcomes[p] = <<>>
      /\ sleeps[p] = <<>>
      /\ pc[p] \in {"main", "for", "returned", "exit"}
      /\ Terminated(p) => result[p] = "None" /\ via[p] = "fallback"

C14_Witness ==
    \E p \in Downloads :
      /\ max_retries[p] = -1
      /\ pc[p] = "returned"
      /\ via[p] = "fallback"

\* C15: both functions, max_retries >= 1: a sleep is always followed by
\* another attempt (after a sleep the range is not exhausted), and an ended
\* invocation has slept exactly calls - 1 times: nothing sleeps after the
\* final attempt.
C15_SleepsBetweenCallsOnly ==
    \A p \in Downloads \cup Tests : max_retries[p] >= 1 =>
      /\ pc[p] = "sleep" => InRange(attempt[p] + 1, max_retries[p])
      /\ Terminated(p) => Len(sleeps[p]) = calls[p] - 1

\* test_download fails on its last attempt and returns without sleeping.
C15_Witness ==
    \E p \in Tests :
      /\ outcomes[p] = <<NotFound, NetworkFailure, Undecodable>>
      /\ pc[p] = "returned"
      /\ calls[p] = 3
      /\ Len(sleeps[p]) = 2

\* C16: when every step of the invocation completes (weak fairness on the
\* call, the requests and the sleeps), every invocation of
\* download_and_display_image ends by reaching a return statement, for every
\* max_retries and every sequence of outcomes.
C16_Terminates ==
    \A p \in Procs : (fn[p] = DOWNLOAD /\ pc[p] = "main") ~> Terminated(p)

C16_Witness ==
    \E p \in Downloads :
      /\ outcomes[p] = <<NetworkFailure, RateLimited, RateLimited>>
      /\ Len(sleeps[p]) = 2
      /\ pc[p] = "returned"

IsPrefix(s, t) == Len(s) <= Len(t) /\ \A i \in 1..Len(s) : s[i] = t[i]

IsRetryableTraffic(h) == \A i \in 1..Len(h) : h[i] = Ok \/ Is429(h[i]) \/ h[i] = NetworkFailure

\* C17: download_and_display_image with initial_delay = 2 (process 1) and
\* test_download (process 2) with the same max_retries, on outcomes that
\* are only decodable successes, 429s and network exceptions: when both have
\* ended and one consumed a prefix of what the other consumed (they ran on
\* the same outcome sequence), they consumed the same outcomes, made the
\* same calls and the same sleeps, and test_download returned True exactly
\* when download_and_display_image returned the image.
C17_EquivalentOnRetryableTraffic ==
    (/\ fn[1] = DOWNLOAD /\ fn[2] = TEST
     /\ Terminated(1) /\ Terminated(2)
     /\ IsRetryableTraffic(outcomes[1]) /\ IsRetryableTraffic(outcomes[2])
     /\ IsPrefix(outcomes[1], outcomes[2]) \/ IsPrefix(outcomes[2], outcomes[1]))
    => /\ outcomes[1] = outcomes[2]
       /\ calls[1] = calls[2]
       /\ sleeps[1] = sleeps[2]
       /\ (result[2] = "True") = (result[1] = "img")
       /\ result[2] \in {"True", "False"} /\ result[1] \in {"img", "None"}

C17_Witness ==
    /\ fn[1] = DOWNLOAD /\ fn[2] = TEST
    /\ outcomes[1] = <<RateLimited, NetworkFailure, NetworkFailure>>
    /\ outcomes[2] = outcomes[1]
    /\ pc[1] = "returned" /\ pc[2] = "returned"
    /\ Len(sleeps[1]) = 2

====
